---- MODULE Spec2Model ----
(***************************************************************************)
(* Model of the RIS beam-sweep experiment:                                 *)
(*   - cb_bsw_flexible_vs_minimum_snr.py: DFT codebook, beam-sweep search  *)
(*     over minimum-SNR thresholds, pre-log / rate accounting;             *)
(*   - environment.py: RisProtocolEnv.compute_afgain (batched evaluation)  *)
(*     and ecdf.                                                           *)
(* Real quantities are kept exact: durations are numerators over TDen,     *)
(* ratios are records [num, den], thresholds are of the form 2^k - 1 so    *)
(* that log2(1 + threshold) is an integer, and sums of roots of unity are  *)
(* kept as coefficient vectors of the N-th root of unity.                  *)
(***************************************************************************)
EXTENDS Integers, Sequences, FiniteSets

VARIABLES
    \* ---- beam-sweep script (cb_bsw_flexible_vs_minimum_snr.py) ----
    pc,                     \* position of the script
    num_els,                \* env.ris.num_els
    snr_cb_noisy,           \* [user -> [configuration -> noisy SNR]]
    ms,                     \* index of the outer loop over minimum_snr_range
    uu,                     \* index of the inner loop over users
    rate_flex,              \* [threshold index -> [user -> rate]]
    n_configurations_flex,  \* [threshold index -> [user -> count]]
    ss,                     \* number of setups already processed
    tau_setup,              \* tau_setup of the last processed setup
    tau_alg,                \* [threshold index -> [user -> duration]]
    prelog_term,            \* [threshold index -> [user -> [num, den]]]
    rate_cb_bsw,            \* [threshold index -> [user -> [num, den]]]
    \* ---- DFT codebook of the script ----
    J, K,                   \* the two grids of np.meshgrid
    DFT,                    \* the entries np.power has produced so far, row by row
    DFT_norm,               \* the normalized DFT matrix
    codebook,               \* the codebook
    \* ---- RisProtocolEnv.compute_afgain (environment.py) ----
    pc_af,                  \* position inside compute_afgain
    x_pts,                  \* the points x, one entry per point
    n_batch,                \* n, the largest number of points of one batch
    af_N,                   \* N
    af_iter,                \* iter
    af_i,                   \* the loop variable i
    af_gain,                \* the output array
    af_writes,              \* how many times each output index was written
    \* ---- ecdf (environment.py) ----
    pc_ecdf,                \* position inside ecdf
    backend,                \* the array library bound to np at import
    backend_at_call,        \* the array library when ecdf was called
    ecdf_a,                 \* the argument a
    ecdf_a_at_call,         \* the argument as it was when ecdf was called
    ecdf_x,                 \* x
    ecdf_counts,            \* counts
    ecdf_cusum,             \* cusum
    ecdf_caught,            \* whether the except clause ran
    ecdf_ret                \* the returned pair

sweepVars == <<pc, num_els, snr_cb_noisy, ms, uu, rate_flex, n_configurations_flex,
               ss, tau_setup, tau_alg, prelog_term, rate_cb_bsw>>

dftVars == <<J, K, DFT, DFT_norm, codebook>>

afVars == <<pc_af, x_pts, n_batch, af_N, af_iter, af_i, af_gain, af_writes>>

ecdfVars == <<pc_ecdf, backend, backend_at_call, ecdf_a, ecdf_a_at_call, ecdf_x,
              ecdf_counts, ecdf_cusum, ecdf_caught, ecdf_ret>>

vars == <<sweepVars, dftVars, afVars, ecdfVars>>

-----------------------------------------------------------------------------
(* Bounds of the model *)

\* largest number of RIS elements (= codebook configurations) of the small runs
MaxEls == 2
\* number of thresholds in minimum_snr_range
NumThresholds == 3
\* the users of the model: the search treats every user independently
Users == 0..1

(* Program constants *)

\* T = 1/14
TNum == 1
TDen == 14
n_ttis == 200
NUM_EL_X == 10

\* durations are numerators over TDen
T == TNum
total_tau == T * n_ttis
setups == <<"ob-cc", "ib-no", "ib-wf">>

Thresholds == 0..(NumThresholds - 1)

\* An increasing grid of thresholds starting at 1, as np.linspace(1, 10000) is;
\* its points are 2^(i+1) - 1, which keeps log2(1 + threshold) exact.
minimum_snr_range == [i \in Thresholds |-> 2^(i + 1) - 1]

\* The noisy SNR values of the model: below, at and between the thresholds.
SnrValues == {0} \cup {minimum_snr_range[i] : i \in Thresholds}

\* np.log2 on the powers of two
RECURSIVE Log2(_)
Log2(v) == IF v <= 1 THEN 0 ELSE 1 + Log2(v \div 2)

\* faulty variant of Zeros: the arrays are allocated without being cleared
ZerosUncleared == [i \in Thresholds |-> [u \in Users |-> 1]]

\* np.zeros((minimum_snr_range.size, num_users))
Zeros == [i \in Thresholds |-> [u \in Users |-> 0]]

-----------------------------------------------------------------------------
(* Beam-sweep search, lines 128-149 *)

\* faulty variant of Mask: the comparison is inverted
MaskInverted(row, minimum_snr) == [i \in DOMAIN row |-> row[i] <= minimum_snr]

\* mask = snr_cb_noisy[uu] >= minimum_snr
Mask(row, minimum_snr) == [i \in DOMAIN row |-> row[i] >= minimum_snr]

\* sum(mask)
MaskSum(mask) == Cardinality({i \in DOMAIN mask : mask[i]})

\* faulty variant of Argmax: the last index holding the maximum
ArgmaxLast(mask) ==
    IF \E i \in DOMAIN mask : mask[i]
    THEN CHOOSE i \in DOMAIN mask : mask[i] /\ \A j \in DOMAIN mask : mask[j] => j <= i
    ELSE 0

\* np.argmax(mask): the first index holding the maximum; 0 when all are FALSE
Argmax(mask) ==
    IF \E i \in DOMAIN mask : mask[i]
    THEN CHOOSE i \in DOMAIN mask : mask[i] /\ \A j \in DOMAIN mask : mask[j] => i <= j
    ELSE 0

\* rate_flex[ms, uu] = np.log2(1 + minimum_snr)
RateOf(minimum_snr) == Log2(1 + minimum_snr)

\* faulty variant of CountOf: the index itself is stored
CountOfIndex(index) == index

\* n_configurations_flex[ms, uu] = index + 1
CountOf(index) == index + 1

\* advance the two nested loops: next user, then next threshold, then leave
Advance ==
    IF uu + 1 \in Users
    THEN /\ uu' = uu + 1
         /\ UNCHANGED <<ms, pc>>
    ELSE /\ uu' = 0
         /\ IF ms + 1 \in Thresholds
            THEN ms' = ms + 1 /\ UNCHANGED pc
            ELSE ms' = ms /\ pc' = "setups"

\* the iteration of a user no configuration of which reaches the threshold
SweepSkip ==
    /\ pc = "sweep"
    /\ LET mask == Mask(snr_cb_noisy[uu], minimum_snr_range[ms])
       IN  MaskSum(mask) = 0
    /\ Advance
    /\ UNCHANGED <<num_els, snr_cb_noisy, rate_flex, n_configurations_flex,
                   ss, tau_setup, tau_alg, prelog_term, rate_cb_bsw>>
    /\ UNCHANGED <<dftVars, afVars, ecdfVars>>

\* the iteration of a user for whom some configuration reaches the threshold
SweepStore ==
    /\ pc = "sweep"
    /\ LET minimum_snr == minimum_snr_range[ms]
           mask == Mask(snr_cb_noisy[uu], minimum_snr)
           index == Argmax(mask)
       IN  /\ MaskSum(mask) # 0
           /\ rate_flex' = [rate_flex EXCEPT ![ms][uu] = RateOf(minimum_snr)]
           /\ n_configurations_flex' =
                  [n_configurations_flex EXCEPT ![ms][uu] = CountOf(index)]
    /\ Advance
    /\ UNCHANGED <<num_els, snr_cb_noisy, ss, tau_setup, tau_alg, prelog_term,
                   rate_cb_bsw>>
    /\ UNCHANGED <<dftVars, afVars, ecdfVars>>

-----------------------------------------------------------------------------
(* Pre-log term and effective rate, lines 154-179 *)

\* tau_setup of a setup
TauSetup(setup) ==
    IF setup = "ob-cc" THEN T
    ELSE IF setup = "ib-no" THEN 2 * T
    ELSE 3 * T

\* faulty variant of TauAlg: one period per swept configuration
TauAlgOneStep(n) == n * T

\* tau_alg = (2 * n_configurations_flex - 1) * T
TauAlg(n) == (2 * n - 1) * T

\* prelog_term = 1 - (tau_setup + tau_setup + tau_alg) / total_tau
PrelogTerm(tsetup, talg) ==
    [num |-> total_tau - (tsetup + tsetup + talg), den |-> total_tau]

\* rate_cb_bsw = prelog_term * rate_flex
RateCbBsw(prelog, rate) == [num |-> prelog.num * rate, den |-> prelog.den]

\* one iteration of the loop over the setups
Setup ==
    /\ pc = "setups"
    /\ ss < Len(setups)
    /\ LET tsetup == TauSetup(setups[ss + 1])
           talg == [i \in Thresholds |-> [u \in Users |->
                        TauAlg(n_configurations_flex[i][u])]]
           prelog == [i \in Thresholds |-> [u \in Users |->
                        PrelogTerm(tsetup, talg[i][u])]]
       IN  /\ tau_setup' = tsetup
           /\ tau_alg' = talg
           /\ prelog_term' = prelog
           /\ rate_cb_bsw' = [i \in Thresholds |-> [u \in Users |->
                                  RateCbBsw(prelog[i][u], rate_flex[i][u])]]
    /\ ss' = ss + 1
    /\ UNCHANGED <<pc, num_els, snr_cb_noisy, ms, uu, rate_flex,
                   n_configurations_flex>>
    /\ UNCHANGED <<dftVars, afVars, ecdfVars>>

\* the script ends after the last setup
Finish ==
    /\ pc = "setups"
    /\ ss = Len(setups)
    /\ pc' = "done"
    /\ UNCHANGED <<num_els, snr_cb_noisy, ms, uu, rate_flex, n_configurations_flex,
                   ss, tau_setup, tau_alg, prelog_term, rate_cb_bsw>>
    /\ UNCHANGED <<dftVars, afVars, ecdfVars>>

\* Each specification below runs one part of the program; the variables of the
\* other parts keep these values.
NoScript ==
    /\ pc = "idle" /\ num_els = 0 /\ snr_cb_noisy = <<>> /\ ms = 0 /\ uu = 0
    /\ rate_flex = <<>> /\ n_configurations_flex = <<>> /\ ss = 0 /\ tau_setup = 0
    /\ tau_alg = <<>> /\ prelog_term = <<>> /\ rate_cb_bsw = <<>>

NoDft == J = <<>> /\ K = <<>> /\ DFT = <<>> /\ DFT_norm = <<>> /\ codebook = <<>>

NoAfgain ==
    /\ pc_af = "idle" /\ x_pts = <<>> /\ n_batch = 0 /\ af_N = 0 /\ af_iter = 0
    /\ af_i = 0 /\ af_gain = <<>> /\ af_writes = <<>>

NoEcdf ==
    /\ pc_ecdf = "idle" /\ backend = "numpy" /\ backend_at_call = "numpy"
    /\ ecdf_a = <<>> /\ ecdf_a_at_call = <<>> /\ ecdf_x = <<>> /\ ecdf_counts = <<>>
    /\ ecdf_cusum = <<>> /\ ecdf_caught = FALSE /\ ecdf_ret = <<>>

\* the state right before the search: the arrays of results are zero
SweepStart(n, snr) ==
    /\ pc = "sweep"
    /\ num_els = n
    /\ snr_cb_noisy = snr
    /\ ms = 0
    /\ uu = 0
    /\ rate_flex = Zeros
    /\ n_configurations_flex = Zeros
    /\ ss = 0
    /\ tau_setup = 0
    /\ tau_alg = Zeros
    /\ prelog_term = [i \in Thresholds |-> [u \in Users |-> [num |-> 0, den |-> 1]]]
    /\ rate_cb_bsw = [i \in Thresholds |-> [u \in Users |-> [num |-> 0, den |-> 1]]]
    /\ NoDft /\ NoAfgain /\ NoEcdf

\* env.ris.num_els is set by the environment, not by the script, which puts no
\* bound on it. The full surface is the planar one of NUM_EL_X elements per side.
RisEls == NUM_EL_X * NUM_EL_X

\* A noisy-SNR row whose configurations before index k are below every threshold
\* and whose configurations from k on reach every threshold (k = n: none does).
StepRow(n, k) ==
    [c \in 0..(n - 1) |-> IF c >= k THEN minimum_snr_range[NumThresholds - 1] ELSE 0]

\* Small surfaces with every noisy-SNR realisation over SnrValues, and the full
\* surface with step realisations: one user's step is anywhere, the other users
\* reach every threshold at once or never.
InitSweep ==
    \/ \E n \in 1..MaxEls :
           \E snr \in [Users -> [0..(n - 1) -> SnrValues]] :
               SweepStart(n, snr)
    \/ \E u0 \in Users : \E k0 \in 0..RisEls : \E k1 \in {0, RisEls} :
           SweepStart(RisEls, [u \in Users |->
                                  StepRow(RisEls, IF u = u0 THEN k0 ELSE k1)])

NextSweep == SweepSkip \/ SweepStore \/ Setup \/ Finish

SpecSweep == InitSweep /\ [][NextSweep]_vars

-----------------------------------------------------------------------------
(* Properties of the beam-sweep search and the rate accounting *)

\* the iteration of threshold index i and user u has been executed
Processed(i, u) == pc # "sweep" \/ i < ms \/ (i = ms /\ u < uu)

\* some configuration of user u reaches the threshold of index i
Reaches(i, u) == \E c \in 0..(num_els - 1) : snr_cb_noisy[u][c] >= minimum_snr_range[i]

\* the smallest configuration index of user u that reaches the threshold of index i
FirstReaching(i, u) ==
    CHOOSE c \in 0..(num_els - 1) :
        /\ snr_cb_noisy[u][c] >= minimum_snr_range[i]
        /\ \A d \in 0..(c - 1) : snr_cb_noisy[u][d] < minimum_snr_range[i]

\* C1: for every user and threshold some configuration reaches, the recorded count
\* is 1 + the smallest index whose noisy SNR is >= the threshold (every earlier
\* index is strictly below it), and the recorded rate is log2(1 + threshold).
C1_EarliestIndexWins ==
    \A i \in Thresholds : \A u \in Users :
        (Processed(i, u) /\ Reaches(i, u)) =>
            /\ n_configurations_flex[i][u] \in 1..num_els
            /\ snr_cb_noisy[u][n_configurations_flex[i][u] - 1] >= minimum_snr_range[i]
            /\ \A d \in 0..(n_configurations_flex[i][u] - 2) :
                   snr_cb_noisy[u][d] < minimum_snr_range[i]
            /\ 2^(rate_flex[i][u]) = 1 + minimum_snr_range[i]

\* C1 witness: the search is over, one user's first reaching configuration is not
\* the first of the codebook, and another user has two reaching configurations.
C1_Witness ==
    /\ pc = "done"
    /\ \E i \in Thresholds : \E u \in Users :
           /\ Reaches(i, u)
           /\ FirstReaching(i, u) >= 1
           /\ n_configurations_flex[i][u] = FirstReaching(i, u) + 1
    /\ \E i \in Thresholds : \E u \in Users :
           /\ Cardinality({c \in 0..(num_els - 1) :
                              snr_cb_noisy[u][c] >= minimum_snr_range[i]}) >= 2
           /\ n_configurations_flex[i][u] = FirstReaching(i, u) + 1

\* C2: a user none of whose configurations reaches the threshold keeps rate 0 and
\* count 0, the search goes on to the later users and thresholds (they get their
\* counts), and the user's effective rate is 0 in every setup.
C2_Sentinel ==
    \A i \in Thresholds : \A u \in Users :
        (Processed(i, u) /\ ~Reaches(i, u)) =>
            /\ rate_flex[i][u] = 0
            /\ n_configurations_flex[i][u] = 0
            /\ pc \in {"sweep", "setups", "done"}
            /\ \A j \in Thresholds : \A w \in Users :
                   (Processed(j, w) /\ Reaches(j, w)) => n_configurations_flex[j][w] >= 1
            /\ (ss >= 1 => rate_cb_bsw[i][u].num = 0)

\* C2 witness: all three setups are done, a user failed a threshold, and a user
\* handled after that one in the same pass over the users got a count.
C2_Witness ==
    /\ pc = "done"
    /\ ss = Len(setups)
    /\ \E i \in Thresholds : \E u \in Users : \E w \in Users :
           /\ u < w
           /\ ~Reaches(i, u)
           /\ n_configurations_flex[i][u] = 0
           /\ rate_cb_bsw[i][u].num = 0
           /\ n_configurations_flex[i][w] >= 1

\* C3 as stated: for thresholds t1 <= t2 the count recorded for t2 is at least
\* the count recorded for t1.
C3_CountNeverDecreases ==
    \A u \in Users : \A i1 \in Thresholds : \A i2 \in Thresholds :
        (i1 <= i2 /\ Processed(i1, u) /\ Processed(i2, u)) =>
            n_configurations_flex[i2][u] >= n_configurations_flex[i1][u]

\* C3 amended: for thresholds t1 <= t2 such that some configuration reaches t2,
\* the count recorded for t2 is at least the count recorded for t1.
C3_CountMonotoneOnSuccess ==
    \A u \in Users : \A i1 \in Thresholds : \A i2 \in Thresholds :
        (i1 <= i2 /\ Processed(i1, u) /\ Processed(i2, u) /\ Reaches(i2, u)) =>
            n_configurations_flex[i2][u] >= n_configurations_flex[i1][u]

\* C3 witness: a user whose sweep succeeds for two thresholds, later for the higher.
C3_Witness ==
    /\ pc = "done"
    /\ \E u \in Users : \E i1 \in Thresholds : \E i2 \in Thresholds :
           /\ i1 < i2
           /\ Reaches(i2, u)
           /\ n_configurations_flex[i1][u] >= 1
           /\ n_configurations_flex[i2][u] > n_configurations_flex[i1][u]

\* the setup whose quantities the state holds, as a number of periods T
SetupPeriods == ss

\* the k with 2^k = 1 + threshold of index i
LogOfThreshold(i) == CHOOSE k \in 0..(NumThresholds + 1) : 2^k = 1 + minimum_snr_range[i]

\* C7 as stated: a user that swept n configurations has a sweep overhead of n
\* periods T.
C7_OnePeriodPerStep ==
    ss >= 1 =>
        \A i \in Thresholds : \A u \in Users :
            n_configurations_flex[i][u] >= 1 =>
                tau_alg[i][u] = n_configurations_flex[i][u] * T

\* C7 amended: a user that swept n configurations has a sweep overhead of
\* (2n - 1) periods T, and its effective rate is
\* (1 - (2 * tau_setup + (2n - 1) * T) / total_tau) * log2(1 + threshold).
C7_PrelogAccounting ==
    ss >= 1 =>
        \A i \in Thresholds : \A u \in Users :
            n_configurations_flex[i][u] >= 1 =>
                /\ tau_alg[i][u] = (2 * n_configurations_flex[i][u] - 1) * T
                /\ tau_setup = SetupPeriods * T
                /\ rate_cb_bsw[i][u].den = n_ttis * T
                /\ rate_cb_bsw[i][u].num =
                       (n_ttis * T - 2 * SetupPeriods * T
                          - (2 * n_configurations_flex[i][u] - 1) * T)
                       * LogOfThreshold(i)

\* C7 witness: the third setup is accounted for a user that swept two or more
\* configurations.
C7_Witness ==
    /\ ss = Len(setups)
    /\ \E i \in Thresholds : \E u \in Users :
           /\ n_configurations_flex[i][u] >= 2
           /\ rate_cb_bsw[i][u].num > 0

\* C9: in every setup and for every recorded count, the pre-log term lies in
\* [0, 1] and no effective rate is negative.
C9_PrelogIsFraction ==
    ss >= 1 =>
        \A i \in Thresholds : \A u \in Users :
            /\ prelog_term[i][u].num >= 0
            /\ prelog_term[i][u].num <= prelog_term[i][u].den
            /\ rate_cb_bsw[i][u].num >= 0

\* C10: once no configuration reaches a threshold for a user, none reaches a
\* larger threshold and the count stays 0; every recorded count is in 0..N and is
\* 0 exactly when the recorded rate is 0.
C10_FailureUpwardClosed ==
    \A u \in Users : \A i1 \in Thresholds :
        Processed(i1, u) =>
            /\ n_configurations_flex[i1][u] \in 0..num_els
            /\ (n_configurations_flex[i1][u] = 0 <=> rate_flex[i1][u] = 0)
            /\ \A i2 \in Thresholds :
                   (i1 <= i2 /\ Processed(i2, u) /\ n_configurations_flex[i1][u] = 0) =>
                       /\ ~Reaches(i2, u)
                       /\ n_configurations_flex[i2][u] = 0

\* C10 witness: a user whose sweep succeeds for the lowest threshold and fails
\* for two larger ones.
C10_Witness ==
    /\ pc = "done"
    /\ \E u \in Users : \E i1 \in Thresholds : \E i2 \in Thresholds :
           /\ 0 < i1 /\ i1 < i2
           /\ n_configurations_flex[0][u] >= 1
           /\ n_configurations_flex[i1][u] = 0
           /\ n_configurations_flex[i2][u] = 0

-----------------------------------------------------------------------------
(* RisProtocolEnv.compute_afgain, environment.py lines 155-187 *)

\* largest number of points N
MaxPoints == 5
\* largest coordinate of a point
MaxCoord == 2
\* largest batch size n
MaxBatch == 3

\* The elements of the surface. A point is one coordinate >= 1 along a line and
\* phases are counted in quarter turns, so that exp(-1j * 2 * pi * phase) is one
\* of 1, -i, -1, i and the sums stay integers.
AfElements == 0..1

\* self.ris.actual_conf: unit-modulus weights, as quarter turns
actual_conf == [e \in AfElements |-> e]

\* phase_shift_ru of one point and one element
PhaseShiftRu(p, e) == p * (e + 1)

\* phase_shift_br of one element: the same for every point
PhaseShiftBr(e) == 2 * e + 1

\* real and imaginary part of exp(-1j * (pi / 2) * q)
ExpRe(q) == IF q % 4 = 0 THEN 1 ELSE IF q % 4 = 2 THEN -1 ELSE 0
ExpIm(q) == IF q % 4 = 1 THEN -1 ELSE IF q % 4 = 3 THEN 1 ELSE 0

RECURSIVE SumOver(_, _)
SumOver(S, f) ==
    IF S = {} THEN 0
    ELSE LET e == CHOOSE e \in S : TRUE IN f[e] + SumOver(S \ {e}, f)

\* np.abs(np.sum(conf * np.exp(...), axis=0) / num_els) ** 2 for one point
PointGain(p) ==
    LET q == [e \in AfElements |-> actual_conf[e] + PhaseShiftRu(p, e) + PhaseShiftBr(e)]
        re == SumOver(AfElements, [e \in AfElements |-> ExpRe(q[e])])
        im == SumOver(AfElements, [e \in AfElements |-> ExpIm(q[e])])
    IN  [num |-> re * re + im * im,
         den |-> Cardinality(AfElements) * Cardinality(AfElements)]

\* the gains of one batch of points, in the order of the points
BatchGain(pts) == [j \in 1..Len(pts) |-> PointGain(pts[j])]

\* the Python slice s[lo:hi] of a sequence
Slice(s, lo, hi) ==
    LET top == IF hi < Len(s) THEN hi ELSE Len(s)
    IN  IF lo >= top THEN <<>> ELSE [j \in 1..(top - lo) |-> s[lo + j]]

\* dst[lo:lo + len(vals)] = vals
AssignSlice(dst, lo, vals) ==
    [k \in 1..Len(dst) |->
        IF k > lo /\ k <= lo + Len(vals) THEN vals[k - lo] ELSE dst[k]]

\* the write counters after dst[lo:lo + len] was assigned
CountWrites(w, lo, len) ==
    [k \in 1..Len(w) |-> IF k > lo /\ k <= lo + len THEN w[k] + 1 ELSE w[k]]

\* iter = int(np.floor(N / n))
NumFullBatches(N, n) == N \div n

\* faulty variant of TailNeeded: a tail of one point is dropped
TailNeededStrict(n2) == n2 > 1

\* if n2 > 0
TailNeeded(n2) == n2 > 0

\* lines 164-172: N, the zero output array, iter
AfPreprocess ==
    /\ pc_af = "start"
    /\ af_N' = Len(x_pts)
    /\ af_gain' = [k \in 1..Len(x_pts) |-> [num |-> 0, den |-> 1]]
    /\ af_iter' = NumFullBatches(Len(x_pts), n_batch)
    /\ af_i' = 0
    /\ pc_af' = "loop"
    /\ UNCHANGED <<x_pts, n_batch, af_writes>>
    /\ UNCHANGED <<sweepVars, dftVars, ecdfVars>>

\* lines 177-179: one full batch, the points i*n .. (i+1)*n - 1
AfFullBatch ==
    /\ pc_af = "loop"
    /\ af_i < af_iter
    /\ LET lo == af_i * n_batch
           vals == BatchGain(Slice(x_pts, lo, (af_i + 1) * n_batch))
       IN  /\ af_gain' = AssignSlice(af_gain, lo, vals)
           /\ af_writes' = CountWrites(af_writes, lo, Len(vals))
    /\ af_i' = af_i + 1
    /\ UNCHANGED <<pc_af, x_pts, n_batch, af_N, af_iter>>
    /\ UNCHANGED <<sweepVars, dftVars, ecdfVars>>

\* lines 181-187: the points left when N is no multiple of n, then the return
AfTail ==
    /\ pc_af = "loop"
    /\ af_i = af_iter
    /\ TailNeeded(af_N - af_iter * n_batch)
    /\ LET lo == af_iter * n_batch
           vals == BatchGain(Slice(x_pts, lo, Len(x_pts)))
       IN  /\ af_gain' = AssignSlice(af_gain, lo, vals)
           /\ af_writes' = CountWrites(af_writes, lo, Len(vals))
    /\ pc_af' = "done"
    /\ UNCHANGED <<x_pts, n_batch, af_N, af_iter, af_i>>
    /\ UNCHANGED <<sweepVars, dftVars, ecdfVars>>

\* lines 181-182, 186-187: no point is left, the return
AfReturn ==
    /\ pc_af = "loop"
    /\ af_i = af_iter
    /\ ~TailNeeded(af_N - af_iter * n_batch)
    /\ pc_af' = "done"
    /\ UNCHANGED <<x_pts, n_batch, af_N, af_iter, af_i, af_gain, af_writes>>
    /\ UNCHANGED <<sweepVars, dftVars, ecdfVars>>

SeqsUpTo(S, n) == UNION {[1..m -> S] : m \in 1..n}

InitAf ==
    /\ pc_af = "start"
    /\ x_pts \in SeqsUpTo(1..MaxCoord, MaxPoints)
    /\ n_batch \in 1..MaxBatch
    /\ af_N = 0 /\ af_iter = 0 /\ af_i = 0
    /\ af_gain = <<>>
    /\ af_writes = [k \in 1..Len(x_pts) |-> 0]
    /\ NoScript /\ NoDft /\ NoEcdf

NextAf == AfPreprocess \/ AfFullBatch \/ AfTail \/ AfReturn

SpecAf == InitAf /\ [][NextAf]_vars

\* C4: the batches (full ones, then the tail when N is no multiple of n) write
\* every output index exactly once, and the value of each point is the one a
\* single batch of all N points gives, whatever the batch size.
C4_BatchingIsAPartition ==
    /\ \A k \in DOMAIN af_writes : af_writes[k] <= 1
    /\ pc_af = "done" =>
           /\ DOMAIN af_gain = 1..Len(x_pts)
           /\ \A k \in 1..Len(x_pts) : af_writes[k] = 1
           /\ \A k \in 1..Len(x_pts) : af_gain[k] = BatchGain(x_pts)[k]

\* C4 witness: two full batches and a tail were evaluated, on points whose gains
\* differ.
C4_Witness ==
    /\ pc_af = "done"
    /\ af_iter >= 2
    /\ af_N > af_iter * n_batch
    /\ \E k \in 1..Len(x_pts) : af_gain[k] # af_gain[1]

-----------------------------------------------------------------------------
(* ecdf, environment.py lines 212-225 *)

\* largest number of samples
MaxSamples == 6
\* largest sample value
MaxSample == 3

\* The array libraries np can be bound to (lines 4-7), and where each keeps its
\* arrays.
Backends == {"numpy", "cupy"}
DeviceOf(lib) == IF lib = "cupy" THEN "gpu" ELSE "host"

\* whether the library has the asnumpy accessor
HasAsnumpy(lib) == lib = "cupy"

\* np.asnumpy: the same data, in host memory
Asnumpy(arr) == [dev |-> "host", data |-> arr.data]

RECURSIVE Gcd(_, _)
Gcd(m, n) == IF n = 0 THEN m ELSE Gcd(n, m % n)

\* the quotient m / n of two counts, as the reduced fraction
Quotient(m, n) == [num |-> m \div Gcd(m, n), den |-> n \div Gcd(m, n)]

\* the distinct values of a set of numbers, in increasing order
RECURSIVE Ascending(_)
Ascending(S) ==
    IF S = {} THEN <<>>
    ELSE LET lo == CHOOSE v \in S : \A w \in S : v <= w
         IN  <<lo>> \o Ascending(S \ {lo})

\* np.unique(a, return_counts=True): the sorted distinct values and how often
\* each occurs
UniqueValues(data) == Ascending({data[k] : k \in 1..Len(data)})

UniqueCounts(data) ==
    LET vals == UniqueValues(data)
    IN  [i \in 1..Len(vals) |-> Cardinality({k \in 1..Len(data) : data[k] = vals[i]})]

\* faulty variant of Cumsum: the counts are not accumulated
CumsumMissing(c) == c

\* np.cumsum
Cumsum(c) ==
    [i \in 1..Len(c) |-> SumOver(1..i, c)]

\* cusum / cusum[-1]
DivideByLast(c) == [i \in 1..Len(c) |-> Quotient(c[i], c[Len(c)])]

\* the return of the try branch: np.asnumpy(x), np.asnumpy(cusum / cusum[-1])
ReturnAsnumpy(x, cusum) ==
    [x |-> Asnumpy(x),
     p |-> Asnumpy([dev |-> cusum.dev, data |-> DivideByLast(cusum.data)])]

\* faulty variant of ReturnFallback: the counts are returned without the division
ReturnFallbackRaw(x, cusum) ==
    [x |-> x,
     p |-> [dev |-> cusum.dev,
            data |-> [i \in 1..Len(cusum.data) |-> [num |-> cusum.data[i], den |-> 1]]]]

\* the return of the except branch: x, cusum / cusum[-1]
ReturnFallback(x, cusum) ==
    [x |-> x, p |-> [dev |-> cusum.dev, data |-> DivideByLast(cusum.data)]]

\* line 220
EcdfUnique ==
    /\ pc_ecdf = "unique"
    /\ ecdf_x' = [dev |-> ecdf_a.dev, data |-> UniqueValues(ecdf_a.data)]
    /\ ecdf_counts' = [dev |-> ecdf_a.dev, data |-> UniqueCounts(ecdf_a.data)]
    /\ pc_ecdf' = "cumsum"
    /\ UNCHANGED <<backend, backend_at_call, ecdf_a, ecdf_a_at_call, ecdf_cusum,
                   ecdf_caught, ecdf_ret>>
    /\ UNCHANGED <<sweepVars, dftVars, afVars>>

\* line 221
EcdfCumsum ==
    /\ pc_ecdf = "cumsum"
    /\ ecdf_cusum' = [dev |-> ecdf_counts.dev, data |-> Cumsum(ecdf_counts.data)]
    /\ pc_ecdf' = "return"
    /\ UNCHANGED <<backend, backend_at_call, ecdf_a, ecdf_a_at_call, ecdf_x,
                   ecdf_counts, ecdf_caught, ecdf_ret>>
    /\ UNCHANGED <<sweepVars, dftVars, afVars>>

\* lines 222-223: the library has asnumpy
EcdfReturnAsnumpy ==
    /\ pc_ecdf = "return"
    /\ HasAsnumpy(backend)
    /\ ecdf_ret' = ReturnAsnumpy(ecdf_x, ecdf_cusum)
    /\ pc_ecdf' = "done"
    /\ UNCHANGED <<backend, backend_at_call, ecdf_a, ecdf_a_at_call, ecdf_x,
                   ecdf_counts, ecdf_cusum, ecdf_caught>>
    /\ UNCHANGED <<sweepVars, dftVars, afVars>>

\* lines 222-225: np.asnumpy raises AttributeError, the except clause returns
EcdfReturnFallback ==
    /\ pc_ecdf = "return"
    /\ ~HasAsnumpy(backend)
    /\ ecdf_caught' = TRUE
    /\ ecdf_ret' = ReturnFallback(ecdf_x, ecdf_cusum)
    /\ pc_ecdf' = "done"
    /\ UNCHANGED <<backend, backend_at_call, ecdf_a, ecdf_a_at_call, ecdf_x,
                   ecdf_counts, ecdf_cusum>>
    /\ UNCHANGED <<sweepVars, dftVars, afVars>>

InitEcdf ==
    /\ pc_ecdf = "unique"
    /\ backend \in Backends
    /\ backend_at_call = backend
    /\ \E data \in SeqsUpTo(1..MaxSample, MaxSamples) :
           ecdf_a = [dev |-> DeviceOf(backend), data |-> data]
    /\ ecdf_a_at_call = ecdf_a
    /\ ecdf_x = <<>> /\ ecdf_counts = <<>> /\ ecdf_cusum = <<>>
    /\ ecdf_caught = FALSE
    /\ ecdf_ret = <<>>
    /\ NoScript /\ NoDft /\ NoAfgain

NextEcdf == EcdfUnique \/ EcdfCumsum \/ EcdfReturnAsnumpy \/ EcdfReturnFallback

SpecEcdf == InitEcdf /\ [][NextEcdf]_vars

\* the number of samples that are <= v
SamplesUpTo(v) ==
    Cardinality({k \in 1..Len(ecdf_a.data) : ecdf_a.data[k] <= v})

\* C5: ecdf returns the distinct samples in strictly increasing order and, for
\* each, (number of samples <= it) / (number of samples); the probabilities are
\* strictly increasing and end at 1. ecdf([1, 1, 2, 3, 3, 3]) gives [1, 2, 3]
\* and [2/6, 3/6, 6/6].
C5_EcdfValues ==
    pc_ecdf = "done" =>
        LET v == ecdf_ret.x.data
            p == ecdf_ret.p.data
            n == Len(ecdf_a.data)
        IN  /\ Len(v) = Len(p)
            /\ {v[i] : i \in 1..Len(v)} = {ecdf_a.data[k] : k \in 1..n}
            /\ \A i \in 1..(Len(v) - 1) : v[i] < v[i + 1]
            /\ \A i \in 1..Len(p) :
                   /\ p[i].den > 0
                   /\ p[i].num * n = SamplesUpTo(v[i]) * p[i].den
            /\ \A i \in 1..(Len(p) - 1) :
                   p[i].num * p[i + 1].den < p[i + 1].num * p[i].den
            /\ p[Len(p)].num = p[Len(p)].den
            /\ ecdf_a.data = <<1, 1, 2, 3, 3, 3>> =>
                   /\ v = <<1, 2, 3>>
                   /\ \A i \in 1..3 : p[i].num * 6 = <<2, 3, 6>>[i] * p[i].den

\* C5 witness: ecdf has returned for the samples [1, 1, 2, 3, 3, 3].
C5_Witness ==
    /\ pc_ecdf = "done"
    /\ ecdf_a.data = <<1, 1, 2, 3, 3, 3>>
    /\ Len(ecdf_ret.x.data) = 3

\* C8: without the asnumpy accessor the AttributeError is caught and the pair is
\* returned from host memory with the values the accessor path returns; on
\* both paths the argument and the bound library are left as they were.
C8_FallbackReturnsSameValues ==
    pc_ecdf = "done" =>
        /\ ecdf_a = ecdf_a_at_call
        /\ backend = backend_at_call
        /\ ecdf_ret.x.dev = "host"
        /\ ecdf_ret.p.dev = "host"
        /\ ecdf_caught <=> ~HasAsnumpy(backend)
        /\ ecdf_ret.x.data = ReturnAsnumpy(ecdf_x, ecdf_cusum).x.data
        /\ ecdf_ret.p.data = ReturnAsnumpy(ecdf_x, ecdf_cusum).p.data

\* C8 witness: ecdf has returned through the except clause, for samples with
\* several distinct values.
C8_Witness ==
    /\ pc_ecdf = "done"
    /\ ~HasAsnumpy(backend)
    /\ ecdf_caught
    /\ Len(ecdf_ret.x.data) >= 2
    /\ ecdf_ret.p.dev = "host"

-----------------------------------------------------------------------------
(* DFT codebook, cb_bsw_flexible_vs_minimum_snr.py lines 78-101 *)

\* largest number of RIS elements of the codebook runs
MaxDftEls == 6

\* A matrix entry is w^e / sqrt(d2), with w = fundamental_freq = exp(-2*pi*i/N):
\* the record [e |-> exponent in 0..N-1, d2 |-> squared denominator].

\* J, K = np.meshgrid(np.arange(N), np.arange(N)): J[a][b] = b, K[a][b] = a
MeshgridJ(n) == [a \in 0..(n - 1) |-> [b \in 0..(n - 1) |-> b]]
MeshgridK(n) == [a \in 0..(n - 1) |-> [b \in 0..(n - 1) |-> a]]

\* faulty variant of Exponent: the grids are added
ExponentSum(j, k) == j + k

\* the exponent of the entry np.power(fundamental_freq, J * K) at one place
Exponent(j, k) == j * k

\* np.power(fundamental_freq, m): w^m, the exponent reduced modulo N
PowerOfW(m, n) == [e |-> m % n, d2 |-> 1]

\* an entry divided by np.sqrt(N)
DivideBySqrt(entry, n) == [e |-> entry.e, d2 |-> entry.d2 * n]

\* the matrix of a row-by-row list of n * n entries
AsMatrix(flat, n) == [a \in 0..(n - 1) |-> [b \in 0..(n - 1) |-> flat[a * n + b + 1]]]

\* line 82
DftMeshgrid ==
    /\ pc = "meshgrid"
    /\ J' = MeshgridJ(num_els)
    /\ K' = MeshgridK(num_els)
    /\ pc' = "power"
    /\ UNCHANGED <<num_els, snr_cb_noisy, ms, uu, rate_flex, n_configurations_flex,
                   ss, tau_setup, tau_alg, prelog_term, rate_cb_bsw>>
    /\ UNCHANGED <<DFT, DFT_norm, codebook>>
    /\ UNCHANGED <<afVars, ecdfVars>>

\* line 83: np.power produces the next entry, row by row
DftPower ==
    /\ pc = "power"
    /\ Len(DFT) < num_els * num_els
    /\ LET a == Len(DFT) \div num_els
           b == Len(DFT) % num_els
       IN  DFT' = Append(DFT, PowerOfW(Exponent(J[a][b], K[a][b]), num_els))
    /\ UNCHANGED <<pc, num_els, snr_cb_noisy, ms, uu, rate_flex, n_configurations_flex,
                   ss, tau_setup, tau_alg, prelog_term, rate_cb_bsw>>
    /\ UNCHANGED <<J, K, DFT_norm, codebook>>
    /\ UNCHANGED <<afVars, ecdfVars>>

\* line 86
DftNormalize ==
    /\ pc = "power"
    /\ Len(DFT) = num_els * num_els
    /\ DFT_norm' = [a \in 0..(num_els - 1) |-> [b \in 0..(num_els - 1) |->
                        DivideBySqrt(AsMatrix(DFT, num_els)[a][b], num_els)]]
    /\ pc' = "codebook"
    /\ UNCHANGED <<num_els, snr_cb_noisy, ms, uu, rate_flex, n_configurations_flex,
                   ss, tau_setup, tau_alg, prelog_term, rate_cb_bsw>>
    /\ UNCHANGED <<J, K, DFT, codebook>>
    /\ UNCHANGED <<afVars, ecdfVars>>

\* line 101
DftCodebook ==
    /\ pc = "codebook"
    /\ codebook' = DFT_norm
    /\ pc' = "selected"
    /\ UNCHANGED <<num_els, snr_cb_noisy, ms, uu, rate_flex, n_configurations_flex,
                   ss, tau_setup, tau_alg, prelog_term, rate_cb_bsw>>
    /\ UNCHANGED <<J, K, DFT, DFT_norm>>
    /\ UNCHANGED <<afVars, ecdfVars>>

InitDft ==
    /\ pc = "meshgrid"
    /\ num_els \in 1..MaxDftEls
    /\ snr_cb_noisy = <<>> /\ ms = 0 /\ uu = 0
    /\ rate_flex = <<>> /\ n_configurations_flex = <<>> /\ ss = 0 /\ tau_setup = 0
    /\ tau_alg = <<>> /\ prelog_term = <<>> /\ rate_cb_bsw = <<>>
    /\ NoDft /\ NoAfgain /\ NoEcdf

NextDft == DftMeshgrid \/ DftPower \/ DftNormalize \/ DftCodebook

SpecDft == InitDft /\ [][NextDft]_vars

(* Exact arithmetic on sums of N-th roots of unity.  A sum c[0] + c[1]*w + ... +
   c[N-1]*w^(N-1) with integer c is 0 exactly when the polynomial with these
   coefficients is a multiple of the N-th cyclotomic polynomial. A polynomial is
   the sequence of its coefficients, the constant one first. *)

\* the remainder of a by the monic polynomial b
RECURSIVE PolyRem(_, _)
PolyRem(a, b) ==
    IF Len(a) < Len(b) THEN a
    ELSE LET lead == a[Len(a)]
             shift == Len(a) - Len(b)
         IN  PolyRem([i \in 1..(Len(a) - 1) |->
                         IF i > shift THEN a[i] - lead * b[i - shift] ELSE a[i]], b)

\* the quotient of a by the monic polynomial b
RECURSIVE PolyQuot(_, _)
PolyQuot(a, b) ==
    IF Len(a) < Len(b) THEN <<>>
    ELSE LET lead == a[Len(a)]
             shift == Len(a) - Len(b)
         IN  Append(PolyQuot([i \in 1..(Len(a) - 1) |->
                                 IF i > shift THEN a[i] - lead * b[i - shift] ELSE a[i]],
                             b),
                    lead)

RECURSIVE DivideByAll(_, _)
RECURSIVE Cyclotomic(_)

\* p divided by the cyclotomic polynomials of the orders in S
DivideByAll(p, S) ==
    IF S = {} THEN p
    ELSE LET m == CHOOSE m \in S : TRUE
         IN  DivideByAll(PolyQuot(p, Cyclotomic(m)), S \ {m})

\* the n-th cyclotomic polynomial: x^n - 1 divided by those of the proper divisors
Cyclotomic(n) ==
    DivideByAll([i \in 1..(n + 1) |-> IF i = 1 THEN -1 ELSE IF i = n + 1 THEN 1 ELSE 0],
                {m \in 1..(n - 1) : n % m = 0})

\* whether the sum of c[m] * w^m over m in 0..n-1 is 0
IsZeroSum(c, n) ==
    LET r == PolyRem([i \in 1..n |-> c[i - 1]], Cyclotomic(n))
    IN  \A i \in 1..Len(r) : r[i] = 0

\* The Hermitian inner product of rows r and s of the codebook, times N: the
\* coefficient of w^m is the number of columns k with e(r,k) - e(s,k) = m mod N.
RowProduct(r, s) ==
    [m \in 0..(num_els - 1) |->
        Cardinality({k \in 0..(num_els - 1) :
                        (codebook[r][k].e - codebook[s][k].e) % num_els = m})]

\* C6: the codebook entry of row j, column k is w^(j*k mod N) / sqrt(N); every
\* row has squared norm 1 and two distinct rows are orthogonal.
C6_CodebookUnitary ==
    pc = "selected" =>
        /\ \A j \in 0..(num_els - 1) : \A k \in 0..(num_els - 1) :
               codebook[j][k] = [e |-> (j * k) % num_els, d2 |-> num_els]
        /\ \A j \in 0..(num_els - 1) :
               IsZeroSum([m \in 0..(num_els - 1) |->
                             IF m = 0 THEN RowProduct(j, j)[m] - num_els
                             ELSE RowProduct(j, j)[m]], num_els)
        /\ \A j \in 0..(num_els - 1) : \A l \in 0..(num_els - 1) :
               j # l => IsZeroSum(RowProduct(j, l), num_els)

\* C6 witness: the codebook of a surface with a composite number of elements is
\* built, and it has two rows whose product is a sum of different roots.
C6_Witness ==
    /\ pc = "selected"
    /\ num_els >= 4
    /\ \E j \in 0..(num_els - 1) : \E l \in 0..(num_els - 1) :
           /\ j # l
           /\ RowProduct(j, l)[1] > 0
           /\ IsZeroSum(RowProduct(j, l), num_els)
           /\ ~IsZeroSum(RowProduct(j, j), num_els)

====
